---- MODULE Spec2Model ----
(***************************************************************************)
(* NvidiaGPUManager (agent/gpu/nvidia_gpu_manager.go): three fields behind *)
(* one sync.RWMutex, optionally seeded by Initialize from the JSON file    *)
(* /var/lib/ecs/gpu/nvidia-gpu-info.json.                                  *)
(*                                                                         *)
(* A Go string or slice is a multi-word header (data pointer, length); an  *)
(* assignment of one stores the words one after the other and a read loads *)
(* them one after the other.  The fields are therefore modelled as headers *)
(* written and read word by word inside the critical sections, so that the *)
(* lock is what makes a setter's write and a getter's read indivisible.    *)
(***************************************************************************)
EXTENDS Integers, Sequences, FiniteSets, TLC

\* ---------------------------------------------------------------- bounds
\* calls made by the single caller of the sequential specification
MaxCalls == 3
\* calls made by the threads of the concurrent specification, in total
MaxConcCalls == 3
\* calls made by the threads of the fair specification, in total
MaxLiveCalls == 2
\* getter calls made by each reader running beside Initialize
MaxReads == 2
Threads == {"t1", "t2", "t3"}
Pair == {"t1", "t2"}
Main == "t1"

Fields == {"DriverVersion", "NvidiaDockerVersion", "GPUIDs"}
StringFields == {"DriverVersion", "NvidiaDockerVersion"}

\* ------------------------------------------------------- values and headers
\* the values a caller passes to the setters
SeqDom  == [ver |-> {"", "418.67"}, ids |-> {<<>>, <<"GPU-1", "GPU-0">>}]
ConcDom == [ver |-> {"", "418.67"}, ids |-> {<<>>, <<"GPU-1", "GPU-0">>}]
LiveDom == [ver |-> {"418.67"}, ids |-> {<<"GPU-1", "GPU-0">>}]

Args(f, D) == IF f = "GPUIDs" THEN D.ids ELSE D.ver

\* the zero value of a field's type ("" for string, nil for []string)
Zero(f) == IF f = "GPUIDs" THEN <<>> ELSE ""

\* header of a value, and the value a header denotes; a length beyond the
\* backing data denotes no value of the type
Hdr(v) == [data |-> v, len |-> Len(v)]
Garbage(f) == IF f = "GPUIDs" THEN <<"<out of bounds>">> ELSE "<out of bounds>"
Val(f, h) == IF h.len <= Len(h.data) THEN SubSeq(h.data, 1, h.len) ELSE Garbage(f)

\* NewNvidiaGPUManager: &NvidiaGPUManager{}
NewNvidiaGPUManager == [f \in Fields |-> Hdr(Zero(f))]

\* ----------------------------------------------------------- the file
\* state of NvidiaGPUInfoFilePath as os.Stat / os.Open / ReadAll see it
Absent     == [kind |-> "absent"]
Unreadable == [kind |-> "unreadable"]
Malformed  == [kind |-> "malformed"]
NoJSON     == [kind |-> "none"]

JAbsent == [t |-> "absent"]
JNull   == [t |-> "null"]
JNum    == [t |-> "num"]
JStr(s) == [t |-> "str", s |-> s]
JArr(a) == [t |-> "arr", a |-> a]

Object(dv, rv, ids) ==
  [kind |-> "object", DriverVersion |-> dv, NvidiaDockerVersion |-> rv, GPUIDs |-> ids]

\* {"DriverVersion":"450.80.02","NvidiaDockerVersion":"2.5.0","GPUIDs":["GPU-0","GPU-1"]}
FullSnapshot    == Object(JStr("450.80.02"), JStr("2.5.0"), JArr(<<"GPU-0", "GPU-1">>))
\* {"NvidiaDockerVersion":"2.5.0","GPUIDs":null}
PartialSnapshot == Object(JAbsent, JStr("2.5.0"), JNull)
\* {"DriverVersion":450,"NvidiaDockerVersion":"2.5.0","GPUIDs":["GPU-0","GPU-1"]}
MistypedSnapshot == Object(JNum, JStr("2.5.0"), JArr(<<"GPU-0", "GPU-1">>))

SeqFiles  == {Absent, Unreadable, Malformed, FullSnapshot, PartialSnapshot, MistypedSnapshot}
LiveFiles == {Absent, Malformed, FullSnapshot}

\* CheckForGPUInfoFile: !os.IsNotExist(err) of os.Stat
CheckForGPUInfoFile(fl) == fl.kind # "absent"

\* GetGPUInfo: os.Open + ioutil.ReadAll; TRUE when either returns an error
GetGPUInfoFails(fl) == fl.kind \in {"absent", "unreadable"}

\* json.Unmarshal(gpuJSON, &nvidiaGPUInfo) into a zero NvidiaGPUManager:
\* a syntax error decodes nothing; a key that is missing or null leaves the
\* zero value; a value of the wrong JSON type is skipped and reported
WantType(f) == IF f = "GPUIDs" THEN "arr" ELSE "str"
DecodeField(doc, f) ==
  IF doc[f].t # WantType(f) THEN Zero(f)
  ELSE IF f = "GPUIDs" THEN doc[f].a ELSE doc[f].s
TypeMismatch(doc, f) == doc[f].t \notin {"absent", "null", WantType(f)}
\* variant: a value of the wrong JSON type is skipped without an error
UnmarshalIgnoresMismatch(doc) ==
  IF doc.kind # "object"
    THEN [err |-> TRUE, info |-> [f \in Fields |-> Zero(f)]]
    ELSE [err |-> FALSE, info |-> [f \in Fields |-> DecodeField(doc, f)]]
Unmarshal(doc) ==
  IF doc.kind # "object"
    THEN [err |-> TRUE, info |-> [f \in Fields |-> Zero(f)]]
    ELSE [err  |-> \E f \in Fields : TypeMismatch(doc, f),
          info |-> [f \in Fields |-> DecodeField(doc, f)]]

\* ------------------------------------------------------------- operations
Setters == {"SetDriverVersion", "SetRuntimeVersion", "SetGPUIDs"}
Getters == {"GetDriverVersion", "GetRuntimeVersion", "GetGPUIDs"}
Accessors == Setters \cup Getters
AllOps == Accessors \cup {"Initialize"}

FieldOf(o) ==
  CASE o \in {"SetDriverVersion", "GetDriverVersion"}   -> "DriverVersion"
    [] o \in {"SetRuntimeVersion", "GetRuntimeVersion"} -> "NvidiaDockerVersion"
    [] o \in {"SetGPUIDs", "GetGPUIDs"}                 -> "GPUIDs"
    [] OTHER                                            -> "none"

SetterPCs == {"Lock", "WriteData", "WriteLen", "Unlock"}
GetterPCs == {"RLock", "ReadData", "ReadLen", "RUnlock"}

ErrNil       == "nil"
ErrRead      == "could not read GPU file content"
ErrUnmarshal == "could not unmarshal GPU file content"

VARIABLES
  n,              \* the live store: field -> header
  lock,           \* n.lock: [w: threads holding it exclusively, r: shared]
  file,           \* the snapshot file
  pc, op, fld, val, ret, err,      \* per thread: position, call, field, argument, results
  exists, gpuJSON, nvidiaGPUInfo,  \* per thread: locals of Initialize
  calls,          \* per thread: calls made so far
  \* history (never read by the operations)
  pre,            \* per thread: the store when the current call started
  checked, didRead, nset,  \* per thread: in this call, the file was looked for,
                  \*             was read, setters invoked
  started,        \* field -> arguments of the setter calls started so far
  fresh,          \* field -> arguments of returned setter calls that no
                  \*          setter call on the field has started after
  quiet,          \* per thread: no setter call on the field of its getter call
                  \*             was running when that started or has started since
  snap, preSnap,  \* content published by the last successful Initialize with
                  \* no setter called since; its value when the call started
  observed,       \* a getter has returned the runtime version that a running
                  \* or completed Initialize publishes
  after,          \* per thread: its current call started after that
  mixed           \* a getter has returned the driver version an Initialize
                  \* publishes while the GPU IDs were still the old ones

locals == <<op, fld, val, ret, err, exists, gpuJSON, nvidiaGPUInfo, calls>>
history == <<pre, checked, didRead, nset, started, fresh, quiet, snap, preSnap, observed, after, mixed>>
vars == <<n, lock, file, pc, locals, history>>

\* a thread's argument and result slots, one per Go type ([]string, string)
Kind(f) == IF f = "GPUIDs" THEN "ids" ELSE "str"
NoArg == [str |-> "", ids |-> <<>>]
NoRet == [str |-> Hdr(""), ids |-> Hdr(<<>>)]
SetArg(f, v) == [NoArg EXCEPT ![Kind(f)] = v]
NoInfo == [f \in Fields |-> Zero(f)]

InitStore ==
  /\ n = NewNvidiaGPUManager
  /\ lock = [w |-> {}, r |-> {}]
  /\ pc = [t \in Threads |-> "done"]
  /\ op = [t \in Threads |-> "none"]
  /\ fld = [t \in Threads |-> "none"]
  /\ val = [t \in Threads |-> NoArg]
  /\ ret = [t \in Threads |-> NoRet]
  /\ err = [t \in Threads |-> ErrNil]
  /\ exists = [t \in Threads |-> FALSE]
  /\ gpuJSON = [t \in Threads |-> NoJSON]
  /\ nvidiaGPUInfo = [t \in Threads |-> NoInfo]
  /\ calls = [t \in Threads |-> 0]
  /\ pre = [t \in Threads |-> NewNvidiaGPUManager]
  /\ checked = [t \in Threads |-> FALSE]
  /\ didRead = [t \in Threads |-> FALSE]
  /\ nset = [t \in Threads |-> 0]
  /\ started = [f \in Fields |-> {}]
  /\ fresh = [f \in Fields |-> {Zero(f)}]
  /\ quiet = [t \in Threads |-> FALSE]
  /\ snap = NoJSON
  /\ preSnap = [t \in Threads |-> NoJSON]
  /\ observed = FALSE
  /\ after = [t \in Threads |-> FALSE]
  /\ mixed = FALSE

\* the argument of thread t's setter call, the value its getter call returned
Arg(t) == val[t][Kind(fld[t])]
Result(t) == Val(fld[t], ret[t][Kind(fld[t])])

SetterRunning(f) == \E u \in Threads : pc[u] \in SetterPCs /\ fld[u] = f

\* history of a call of setter f(v) by thread t starting, alone (fr = fresh)
\* or in the step in which the previous setter call returns
StartSetter(t, f, v, fr) ==
  /\ started' = [started EXCEPT ![f] = @ \cup {v}]
  /\ fresh' = [fr EXCEPT ![f] = {}]
  /\ quiet' = [u \in Threads |->
                 IF u # t /\ op[u] \in Getters /\ fld[u] = f THEN FALSE ELSE quiet[u]]
  /\ nset' = [nset EXCEPT ![t] = @ + 1]

\* a caller invokes one of the methods of the GPUManager interface
Call(t, ops, limit, D) ==
  /\ pc[t] = "done"
  /\ calls[t] < limit
  /\ calls' = [calls EXCEPT ![t] = @ + 1]
  /\ pre' = [pre EXCEPT ![t] = n]
  /\ preSnap' = [preSnap EXCEPT ![t] = snap]
  /\ after' = [after EXCEPT ![t] = observed]
  /\ checked' = [checked EXCEPT ![t] = FALSE]
  /\ didRead' = [didRead EXCEPT ![t] = FALSE]
  /\ ret' = [ret EXCEPT ![t] = NoRet]
  /\ err' = [err EXCEPT ![t] = ErrNil]
  /\ exists' = [exists EXCEPT ![t] = FALSE]
  /\ gpuJSON' = [gpuJSON EXCEPT ![t] = NoJSON]
  /\ nvidiaGPUInfo' = [nvidiaGPUInfo EXCEPT ![t] = NoInfo]
  /\ \E o \in ops :
       /\ op' = [op EXCEPT ![t] = o]
       /\ fld' = [fld EXCEPT ![t] = FieldOf(o)]
       /\ \/ /\ o = "Initialize"
             /\ pc' = [pc EXCEPT ![t] = "Exists"]
             /\ val' = [val EXCEPT ![t] = NoArg]
             /\ nset' = [nset EXCEPT ![t] = 0]
             /\ UNCHANGED <<started, fresh, quiet, snap>>
          \/ /\ o \in Setters
             /\ \E v \in Args(FieldOf(o), D) :
                  /\ val' = [val EXCEPT ![t] = SetArg(FieldOf(o), v)]
                  /\ StartSetter(t, FieldOf(o), v, fresh)
             /\ pc' = [pc EXCEPT ![t] = "Lock"]
             /\ snap' = NoJSON
          \/ /\ o \in Getters
             /\ pc' = [pc EXCEPT ![t] = "RLock"]
             /\ val' = [val EXCEPT ![t] = NoArg]
             /\ nset' = [nset EXCEPT ![t] = 0]
             /\ quiet' = [quiet EXCEPT ![t] = ~SetterRunning(FieldOf(o))]
             /\ UNCHANGED <<started, fresh, snap>>
  /\ UNCHANGED <<n, lock, file, observed, mixed>>

\* ------------------------------------------------------------ n.lock
\* sync.RWMutex: Lock excludes every holder, RLock excludes a writer
\* variant: Lock waits for a writer only
CanLockIgnoresReaders == lock.w = {}
CanLock  == lock.w = {} /\ lock.r = {}
\* variant: RLock never waits
CanRLockAlways == TRUE
CanRLock == lock.w = {}
\* variant: the setter returns without releasing the lock
UnlockedKeepsLock(l, t) == l
Unlocked(l, t)  == [l EXCEPT !.w = @ \ {t}]
RUnlocked(l, t) == [l EXCEPT !.r = @ \ {t}]

\* ---------------------------------------------------------- Initialize
\* the order of the three publishing calls of Initialize (lines 72-74)
FirstSetter == "DriverVersion"
\* variant: the runtime version is published before the GPU IDs
NextSetterRuntimeFirst(f) ==
  CASE f = "DriverVersion"       -> "NvidiaDockerVersion"
    [] f = "NvidiaDockerVersion" -> "GPUIDs"
    [] OTHER                     -> "none"
NextSetter(f) ==
  CASE f = "DriverVersion" -> "GPUIDs"
    [] f = "GPUIDs"        -> "NvidiaDockerVersion"
    [] OTHER               -> "none"

\* nvidiaGPUInfo.GetDriverVersion() / GetGPUIDs() / GetRuntimeVersion(): the
\* decoded structure is local to the call, its own lock is uncontended
\* variant: the runtime version is taken from the driver version
TempGetterWrongField(info, f) ==
  IF f = "NvidiaDockerVersion" THEN info.DriverVersion ELSE info[f]
TempGetter(info, f) == info[f]

\* variant: the file is read whether or not it exists
InitializeExistsAlwaysReads(t) ==
  /\ pc[t] = "Exists"
  /\ exists' = [exists EXCEPT ![t] = CheckForGPUInfoFile(file)]
  /\ pc' = [pc EXCEPT ![t] = "Read"]
  /\ checked' = [checked EXCEPT ![t] = TRUE]
  /\ UNCHANGED <<n, lock, file, op, fld, val, ret, err, gpuJSON, nvidiaGPUInfo, calls,
                 pre, didRead, nset, started, fresh, quiet, snap, preSnap,
                 observed, after, mixed>>

\* variant: a store that an earlier Initialize has populated is not
\* initialized again
InitializeExistsOnce(t) ==
  /\ pc[t] = "Exists"
  /\ IF preSnap[t] # NoJSON
       THEN /\ pc' = [pc EXCEPT ![t] = "done"]
            /\ UNCHANGED <<exists, checked>>
       ELSE /\ exists' = [exists EXCEPT ![t] = CheckForGPUInfoFile(file)]
            /\ pc' = [pc EXCEPT ![t] = IF CheckForGPUInfoFile(file) THEN "Read" ELSE "done"]
            /\ checked' = [checked EXCEPT ![t] = TRUE]
  /\ UNCHANGED <<n, lock, file, op, fld, val, ret, err, gpuJSON, nvidiaGPUInfo, calls,
                 pre, didRead, nset, started, fresh, quiet, snap, preSnap,
                 observed, after, mixed>>

\* if GPUInfoFileExists() { ... } return nil
InitializeExists(t) ==
  /\ pc[t] = "Exists"
  /\ exists' = [exists EXCEPT ![t] = CheckForGPUInfoFile(file)]
  /\ pc' = [pc EXCEPT ![t] = IF CheckForGPUInfoFile(file) THEN "Read" ELSE "done"]
  /\ checked' = [checked EXCEPT ![t] = TRUE]
  /\ UNCHANGED <<n, lock, file, op, fld, val, ret, err, gpuJSON, nvidiaGPUInfo, calls,
                 pre, didRead, nset, started, fresh, quiet, snap, preSnap,
                 observed, after, mixed>>

\* gpuJSON, err := GetGPUInfoJSON(); json.Unmarshal(gpuJSON, &nvidiaGPUInfo);
\* on success the call n.SetDriverVersion(nvidiaGPUInfo.GetDriverVersion())
InitializeRead(t) ==
  /\ pc[t] = "Read"
  /\ didRead' = [didRead EXCEPT ![t] = TRUE]
  /\ IF GetGPUInfoFails(file)
       THEN /\ err' = [err EXCEPT ![t] = ErrRead]
            /\ pc' = [pc EXCEPT ![t] = "done"]
            /\ UNCHANGED <<gpuJSON, nvidiaGPUInfo, fld, val, started, fresh, quiet, nset>>
       ELSE /\ gpuJSON' = [gpuJSON EXCEPT ![t] = file]
            /\ nvidiaGPUInfo' = [nvidiaGPUInfo EXCEPT ![t] = Unmarshal(file).info]
            /\ IF Unmarshal(file).err
                 THEN /\ err' = [err EXCEPT ![t] = ErrUnmarshal]
                      /\ pc' = [pc EXCEPT ![t] = "done"]
                      /\ UNCHANGED <<fld, val, started, fresh, quiet, nset>>
                 ELSE /\ fld' = [fld EXCEPT ![t] = FirstSetter]
                      /\ val' = [val EXCEPT ![t] =
                                 SetArg(FirstSetter, TempGetter(Unmarshal(file).info, FirstSetter))]
                      /\ pc' = [pc EXCEPT ![t] = "Lock"]
                      /\ StartSetter(t, FirstSetter,
                                     TempGetter(Unmarshal(file).info, FirstSetter), fresh)
                      /\ UNCHANGED err
  /\ UNCHANGED <<n, lock, file, op, ret, exists, calls,
                 pre, checked, snap, preSnap, observed, after, mixed>>

Initialize(t) == InitializeExists(t) \/ InitializeRead(t)

\* --------------------------------------------------------------- setters
\* n.lock.Lock()
Lock(t) ==
  /\ pc[t] = "Lock"
  /\ CanLock
  /\ lock' = [lock EXCEPT !.w = @ \cup {t}]
  /\ pc' = [pc EXCEPT ![t] = "WriteData"]
  /\ UNCHANGED <<n, file, locals, history>>

\* variant: both version setters assign n.DriverVersion
WriteDataWrongField(t) ==
  /\ pc[t] = "WriteData"
  /\ n' = [n EXCEPT ![IF fld[t] = "GPUIDs" THEN "GPUIDs" ELSE "DriverVersion"].data = Arg(t)]
  /\ pc' = [pc EXCEPT ![t] = "WriteLen"]
  /\ UNCHANGED <<lock, file, locals, history>>

\* n.<field> = <argument>, the data word
WriteData(t) ==
  /\ pc[t] = "WriteData"
  /\ n' = [n EXCEPT ![fld[t]].data = Arg(t)]
  /\ pc' = [pc EXCEPT ![t] = "WriteLen"]
  /\ UNCHANGED <<lock, file, locals, history>>

\* variant: at most one element of the argument is kept
WriteLenTruncated(t) ==
  /\ pc[t] = "WriteLen"
  /\ n' = [n EXCEPT ![fld[t]].len = IF Len(Arg(t)) > 1 THEN 1 ELSE Len(Arg(t))]
  /\ pc' = [pc EXCEPT ![t] = "Unlock"]
  /\ UNCHANGED <<lock, file, locals, history>>

\* n.<field> = <argument>, the length word
WriteLen(t) ==
  /\ pc[t] = "WriteLen"
  /\ n' = [n EXCEPT ![fld[t]].len = Len(Arg(t))]
  /\ pc' = [pc EXCEPT ![t] = "Unlock"]
  /\ UNCHANGED <<lock, file, locals, history>>

\* defer n.lock.Unlock() and the return to the caller; inside Initialize the
\* caller goes on to its next publishing call, or returns nil after the last
Unlock(t) ==
  /\ pc[t] = "Unlock"
  /\ lock' = Unlocked(lock, t)
  /\ LET returned == [fresh EXCEPT ![fld[t]] = @ \cup {Arg(t)}]
         next == NextSetter(fld[t])
     IN  IF op[t] = "Initialize" /\ next # "none"
           THEN /\ fld' = [fld EXCEPT ![t] = next]
                /\ val' = [val EXCEPT ![t] = SetArg(next, TempGetter(nvidiaGPUInfo[t], next))]
                /\ pc' = [pc EXCEPT ![t] = "Lock"]
                /\ StartSetter(t, next, TempGetter(nvidiaGPUInfo[t], next), returned)
                /\ UNCHANGED snap
           ELSE /\ pc' = [pc EXCEPT ![t] = "done"]
                /\ fresh' = returned
                /\ snap' = IF op[t] = "Initialize" THEN gpuJSON[t] ELSE snap
                /\ UNCHANGED <<fld, val, started, quiet, nset>>
  /\ UNCHANGED <<n, file, op, ret, err, exists, gpuJSON, nvidiaGPUInfo, calls,
                 pre, checked, didRead, preSnap, observed, after, mixed>>

Setter(t) == Lock(t) \/ WriteData(t) \/ WriteLen(t) \/ Unlock(t)

SetDriverVersion(t)  == fld[t] = "DriverVersion" /\ Setter(t)
SetGPUIDs(t)         == fld[t] = "GPUIDs" /\ Setter(t)
SetRuntimeVersion(t) == fld[t] = "NvidiaDockerVersion" /\ Setter(t)

\* --------------------------------------------------------------- getters
\* n.lock.RLock()
RLock(t) ==
  /\ pc[t] = "RLock"
  /\ CanRLock
  /\ lock' = [lock EXCEPT !.r = @ \cup {t}]
  /\ pc' = [pc EXCEPT ![t] = "ReadData"]
  /\ UNCHANGED <<n, file, locals, history>>

\* return n.<field>, the data word
ReadData(t) ==
  /\ pc[t] = "ReadData"
  /\ ret' = [ret EXCEPT ![t][Kind(fld[t])].data = n[fld[t]].data]
  /\ pc' = [pc EXCEPT ![t] = "ReadLen"]
  /\ UNCHANGED <<n, lock, file, op, fld, val, err, exists, gpuJSON, nvidiaGPUInfo, calls, history>>

\* return n.<field>, the length word
ReadLen(t) ==
  /\ pc[t] = "ReadLen"
  /\ ret' = [ret EXCEPT ![t][Kind(fld[t])].len = n[fld[t]].len]
  /\ pc' = [pc EXCEPT ![t] = "RUnlock"]
  /\ UNCHANGED <<n, lock, file, op, fld, val, err, exists, gpuJSON, nvidiaGPUInfo, calls, history>>

\* thread u is in, or has completed, an Initialize that decoded a snapshot
\* whose field f differs from what the store held before
Publishes(u, f) ==
  /\ op[u] = "Initialize"
  /\ gpuJSON[u] # NoJSON
  /\ err[u] = ErrNil
  /\ nvidiaGPUInfo[u][f] # Val(f, pre[u][f])

\* defer n.lock.RUnlock() and the return to the caller
RUnlock(t) ==
  /\ pc[t] = "RUnlock"
  /\ lock' = RUnlocked(lock, t)
  /\ pc' = [pc EXCEPT ![t] = "done"]
  /\ observed' =
       (observed \/ (/\ fld[t] = "NvidiaDockerVersion"
                     /\ \E u \in Threads \ {t} :
                          /\ Publishes(u, "NvidiaDockerVersion")
                          /\ Result(t) = nvidiaGPUInfo[u].NvidiaDockerVersion))
  /\ mixed' =
       (mixed \/ (/\ fld[t] = "DriverVersion"
                  /\ \E u \in Threads \ {t} :
                       /\ Publishes(u, "DriverVersion")
                       /\ Publishes(u, "GPUIDs")
                       /\ Result(t) = nvidiaGPUInfo[u].DriverVersion
                       /\ n.GPUIDs = pre[u].GPUIDs))
  /\ UNCHANGED <<n, file, locals, pre, checked, didRead, nset, started, fresh, quiet,
                 snap, preSnap, after>>

Getter(t) == RLock(t) \/ ReadData(t) \/ ReadLen(t) \/ RUnlock(t)

GetDriverVersion(t)  == fld[t] = "DriverVersion" /\ Getter(t)
GetGPUIDs(t)         == fld[t] = "GPUIDs" /\ Getter(t)
GetRuntimeVersion(t) == fld[t] = "NvidiaDockerVersion" /\ Getter(t)

\* --------------------------------------------------------- environment
\* the external producer of the snapshot creates, rewrites or removes it
FileChange(files) ==
  /\ \E fl \in files \ {file} : file' = fl
  /\ UNCHANGED <<n, lock, pc, locals, history>>

\* ---------------------------------------------------------- specifications
Methods(t) ==
  \/ Initialize(t)
  \/ SetDriverVersion(t) \/ SetGPUIDs(t) \/ SetRuntimeVersion(t)
  \/ GetDriverVersion(t) \/ GetGPUIDs(t) \/ GetRuntimeVersion(t)

\* one caller, every method, values of SeqDom, a changing file
Init == InitStore /\ file \in SeqFiles
CallSeq == Call(Main, AllOps, MaxCalls, SeqDom)
WriteFile == FileChange(SeqFiles)
Next == CallSeq \/ Methods(Main) \/ WriteFile
Spec == Init /\ [][Next]_vars

\* every thread calls getters and setters, values of ConcDom, no file
InitConc == InitStore /\ file = Absent
CallConc(t) ==
  /\ calls["t1"] + calls["t2"] < MaxConcCalls
  /\ Call(t, Accessors, MaxConcCalls, ConcDom)
NextConc ==
  \E t \in Pair :
    \/ CallConc(t)
    \/ SetDriverVersion(t) \/ SetGPUIDs(t) \/ SetRuntimeVersion(t)
    \/ GetDriverVersion(t) \/ GetGPUIDs(t) \/ GetRuntimeVersion(t)
SpecConc == InitConc /\ [][NextConc]_vars

\* one thread calls Initialize once on a complete snapshot while the other
\* threads call getters: Initialize is the only writer
Readers == Threads \ {Main}
InitPublish == InitStore /\ file = FullSnapshot
CallInitialize == Call(Main, {"Initialize"}, 1, ConcDom)
CallGetter(t) == Call(t, Getters, MaxReads, ConcDom)
NextPublish ==
  \/ CallInitialize
  \/ Initialize(Main)
  \/ SetDriverVersion(Main) \/ SetGPUIDs(Main) \/ SetRuntimeVersion(Main)
  \/ \E t \in Readers :
       CallGetter(t) \/ GetDriverVersion(t) \/ GetGPUIDs(t) \/ GetRuntimeVersion(t)
SpecPublish == InitPublish /\ [][NextPublish]_vars

\* every thread calls every method, a finite number of times; a call that
\* has started is scheduled fairly, a caller need not call again
InitLive == InitStore /\ file \in LiveFiles
CallLive(t) ==
  /\ calls["t1"] + calls["t2"] < MaxLiveCalls
  /\ Call(t, AllOps, MaxLiveCalls, LiveDom)
NextLive == \E t \in Pair : CallLive(t) \/ Methods(t)
SpecLive == InitLive /\ [][NextLive]_vars /\ \A t \in Pair : WF_vars(Methods(t))

\* ------------------------------------------------------------ properties
Returned(t, ops) == pc[t] = "done" /\ op[t] \in ops

\* a snapshot content that decodes: a JSON object whose known keys are
\* missing, null or of the field's type; and what each key decodes to
ValidSnapshot(doc) ==
  /\ doc.kind = "object"
  /\ \A f \in StringFields : doc[f].t \in {"absent", "null", "str"}
  /\ doc.GPUIDs.t \in {"absent", "null", "arr"}
SnapshotValue(doc, f) ==
  IF doc[f].t \in {"absent", "null"} THEN Zero(f)
  ELSE IF f = "GPUIDs" THEN doc[f].a ELSE doc[f].s

\* the file was reported present, was read and its content is c
ReadContent(t, c) == exists[t] /\ didRead[t] /\ gpuJSON[t] = c /\ c # NoJSON

\* C1: an Initialize that finds the file, reads it and decodes its content
\* returns nil and leaves in each field exactly the decoded value of its key
\* (the zero value for a missing or null key), whatever the field held
\* before; a getter called afterwards, no setter called in between, returns
\* that value.
InitializePublishesSnapshot ==
  \A t \in Threads :
    /\ (Returned(t, {"Initialize"}) /\ ReadContent(t, gpuJSON[t]) /\ ValidSnapshot(gpuJSON[t]))
         => /\ err[t] = ErrNil
            /\ \A f \in Fields : n[f] = Hdr(SnapshotValue(gpuJSON[t], f))
    /\ (Returned(t, Getters) /\ snap # NoJSON)
         => Result(t) = SnapshotValue(snap, fld[t])

\* a driver version set by a setter has been overwritten with the zero value
\* of a snapshot without that key, and the getter has returned it
InitializePublishesSnapshotWitness ==
  /\ Returned(Main, {"GetDriverVersion"})
  /\ snap = PartialSnapshot
  /\ "418.67" \in started.DriverVersion
  /\ Result(Main) = ""

\* C2: an Initialize whose existence check reports the file absent returns
\* nil, reads nothing, invokes no setter and leaves the three fields as they
\* were; while no setter has ever been invoked every getter returns the zero
\* value.
AbsentFileIsNoOp ==
  \A t \in Threads :
    /\ (Returned(t, {"Initialize"}) /\ checked[t] /\ ~exists[t])
         => /\ err[t] = ErrNil
            /\ ~didRead[t]
            /\ nset[t] = 0
            /\ n = pre[t]
    /\ (Returned(t, Getters) /\ \A f \in Fields : started[f] = {})
         => Result(t) = Zero(fld[t])

\* Initialize found no file on a store whose driver version had been set
AbsentFileIsNoOpWitness ==
  /\ Returned(Main, {"Initialize"})
  /\ checked[Main] /\ ~exists[Main]
  /\ n.DriverVersion = Hdr("418.67")

\* C3: an Initialize that finds the file but cannot read it returns the read
\* error, one that reads a content that does not decode returns the
\* unmarshal error; either invokes no setter and leaves the three fields as
\* they were.
FailedInitializeLeavesStore ==
  \A t \in Threads :
    (Returned(t, {"Initialize"}) /\ exists[t]) =>
      /\ (didRead[t] /\ gpuJSON[t] = NoJSON)
           => err[t] = ErrRead /\ nset[t] = 0 /\ n = pre[t]
      /\ (gpuJSON[t] # NoJSON /\ ~ValidSnapshot(gpuJSON[t]))
           => err[t] = ErrUnmarshal /\ nset[t] = 0 /\ n = pre[t]

\* a snapshot with a key of the wrong type met a store that held values
FailedInitializeLeavesStoreWitness ==
  /\ Returned(Main, {"Initialize"})
  /\ gpuJSON[Main] = MistypedSnapshot
  /\ n.NvidiaDockerVersion = Hdr("418.67")

\* C6: with a single caller, a getter returns exactly the argument of the
\* latest setter call on its field: same elements, same order, same length.
GetterReturnsLastSet ==
  \A t \in Threads :
    (Returned(t, Getters) /\ started[fld[t]] # {})
      => fresh[fld[t]] = {Result(t)}

\* GetGPUIDs has returned a two-element list that is not in sorted order
GetterReturnsLastSetWitness ==
  /\ Returned(Main, {"GetGPUIDs"})
  /\ Result(Main) = <<"GPU-1", "GPU-0">>
  /\ snap = NoJSON

\* C8: with a single caller, a setter leaves the two fields it is not the
\* setter of as they were when it was called, and a getter leaves all three.
FieldsIndependent ==
  \A t \in Threads :
    /\ Returned(t, Setters) => \A g \in Fields \ {fld[t]} : n[g] = pre[t][g]
    /\ Returned(t, Getters) => n = pre[t]

\* the runtime version has been set on a store with a driver version and an
\* empty GPU ID list
FieldsIndependentWitness ==
  /\ Returned(Main, {"SetRuntimeVersion"})
  /\ Arg(Main) = "418.67"
  /\ n.DriverVersion = Hdr("450.80.02")
  /\ n.GPUIDs = Hdr(<<>>)

\* C9: every Initialize call looks for the file and, if it is reported
\* present, reads it, whatever earlier calls did; a successful Initialize
\* that read the content the previous successful one published, no setter
\* called in between, leaves the store as it was; a successful Initialize
\* leaves the snapshot's values in fields that setters had written.
InitializeRereads ==
  \A t \in Threads :
    Returned(t, {"Initialize"}) =>
      /\ checked[t]
      /\ exists[t] => didRead[t]
      /\ (err[t] = ErrNil /\ ReadContent(t, gpuJSON[t]) /\ preSnap[t] = gpuJSON[t])
           => n = pre[t]
      /\ (err[t] = ErrNil /\ ReadContent(t, gpuJSON[t]) /\ preSnap[t] = NoJSON)
           => \A f \in Fields : n[f] = Hdr(SnapshotValue(gpuJSON[t], f))

\* a second Initialize on a populated store whose driver version a setter
\* had changed since
InitializeRereadsWitness ==
  /\ Returned(Main, {"Initialize"})
  /\ calls[Main] = 3
  /\ gpuJSON[Main] = FullSnapshot
  /\ preSnap[Main] = NoJSON
  /\ pre[Main].DriverVersion = Hdr("418.67")
  /\ pre[Main].GPUIDs = Hdr(<<"GPU-0", "GPU-1">>)
  /\ err[Main] = ErrNil

\* C4: under every interleaving, the value a getter returns is the initial
\* value of its field or the whole argument of a setter call on that field
\* that had started; if no setter call on the field was running when the
\* getter started and none has started since, it is the argument of a
\* returned setter call that no other setter call on the field came after
\* (or the initial value, when there was none).
GetterReturnsWrittenValue ==
  \A t \in Threads :
    Returned(t, Getters) =>
      /\ Result(t) \in started[fld[t]] \cup {Zero(fld[t])}
      /\ quiet[t] => Result(t) \in fresh[fld[t]]

\* a getter has returned a written value although a setter call on its
\* field, still running, overlapped it
GetterReturnsWrittenValueWitness ==
  \E t, u \in Pair :
    /\ Returned(t, Getters)
    /\ Result(t) # Zero(fld[t])
    /\ ~quiet[t]
    /\ pc[u] \in {"WriteData", "WriteLen"}
    /\ fld[u] = fld[t]

InWrite(t) == pc[t] \in {"WriteData", "WriteLen", "Unlock"}
InRead(t)  == pc[t] \in {"ReadData", "ReadLen", "RUnlock"}

\* C5: the lock is held by no one, by exactly one setter and no getter, or
\* by getters only; the threads inside a setter's critical section are its
\* exclusive holders, those inside a getter's are its shared holders, so no
\* field is written while another thread is inside a critical section.
LockExclusion ==
  /\ Cardinality(lock.w) <= 1
  /\ lock.w # {} => lock.r = {}
  /\ \A t \in Threads :
       /\ InWrite(t) <=> t \in lock.w
       /\ InRead(t) <=> t \in lock.r
       /\ InWrite(t) => \A u \in Threads \ {t} : ~InWrite(u) /\ ~InRead(u)

\* two getters are inside their critical sections while a field is non-zero
LockExclusionWitness ==
  /\ lock.r = Pair
  /\ \A t \in Pair : InRead(t)
  /\ n.GPUIDs = Hdr(<<"GPU-1", "GPU-0">>)

LockFree == lock.w = {} /\ lock.r = {}
AllReturned == \A t \in Pair : pc[t] = "done"
OutsideLock(t) == pc[t] \in {"done", "Exists", "Read", "Lock", "RLock"}

\* C7: with every started call scheduled fairly and finitely many calls,
\* every call returns and the lock ends up free for good; a thread that is
\* about to acquire the lock, or is in Initialize outside a setter, or has
\* returned, does not hold it.
EveryCallReturns ==
  /\ [](\A t \in Pair : OutsideLock(t) => t \notin lock.w \cup lock.r)
  /\ \A t \in Pair : (pc[t] # "done") ~> (pc[t] = "done")
  /\ <>[](AllReturned /\ LockFree)

\* an Initialize that published a snapshot and a getter of another thread that
\* saw part of it have both returned and the lock is free
EveryCallReturnsWitness ==
  /\ AllReturned /\ LockFree
  /\ \E t, u \in Pair :
       /\ op[t] = "Initialize" /\ nset[t] = 3
       /\ op[u] \in Getters /\ ~quiet[u]

Snapshot(f) == SnapshotValue(gpuJSON[Main], f)

\* C10: Initialize being the only writer, a getter call of the driver
\* version or of the GPU IDs that starts after some getter has returned the
\* snapshot's runtime version returns the snapshot's value; and whenever the
\* runtime version field holds the snapshot's value, so do the other two.
RuntimeVersionPublishedLast ==
  /\ \A t \in Readers :
       (Returned(t, {"GetDriverVersion", "GetGPUIDs"}) /\ after[t])
         => Result(t) = Snapshot(fld[t])
  /\ (didRead[Main] /\ n.NvidiaDockerVersion = Hdr(Snapshot("NvidiaDockerVersion")))
       => \A f \in Fields : n[f] = Hdr(Snapshot(f))

\* a reader saw the new driver version beside the old GPU IDs, a reader saw
\* the new runtime version, and a later call has read the GPU IDs
RuntimeVersionPublishedLastWitness ==
  /\ mixed
  /\ observed
  /\ \E t \in Readers : Returned(t, {"GetGPUIDs"}) /\ after[t]

====
